---- MODULE Spec2Model ----
(***************************************************************************)
(* Model of the store of src/database.py (projects, employees, time        *)
(* allocations, budget items), of its monthly revenue forecast and project *)
(* margins, and of the composite pipeline score of pages/5_Pipeline.py.    *)
(*                                                                         *)
(* Encoding of column values.  A nullable column holds NULL (the empty     *)
(* tuple) or a one-element tuple <<v>>.  A TEXT date is the tuple of the   *)
(* numbers between its dashes: "2026-01-15" is <<2026, 1, 15>>, "" is      *)
(* <<>>, "2026" is <<2026>>.  Python floats are modelled as exact          *)
(* rationals <<n, d>> in lowest terms with d > 0 (IEEE rounding is not     *)
(* modelled).                                                              *)
(***************************************************************************)
EXTENDS Integers, Sequences, FiniteSets, TLC

VARIABLES projects, nextId, writes, call, raised, forecast, result,
          employees, nextEmployeeId, time_allocations, budget_items, nextBudgetId,
          reader

vars == <<projects, nextId, writes, call, raised, forecast, result,
          employees, nextEmployeeId, time_allocations, budget_items, nextBudgetId,
          reader>>

\* The tables next to projects, with their AUTOINCREMENT counters.
otherTables == <<employees, nextEmployeeId, time_allocations, budget_items, nextBudgetId>>

(***************************************************************************)
(* Bounds of the model.                                                    *)
(***************************************************************************)
\* Writing calls (add_*, update_project, set_allocation) in one run.
MaxWrites == 3

(***************************************************************************)
(* Column values.                                                          *)
(***************************************************************************)
NULL == <<>>

Val(v) == <<v>>

EmptyText == <<>>

PROJECT_STATUSES == {"Pipeline", "Active", "Completed", "Lost", "On Hold"}

\* Python truthiness of a numeric column value: None and 0 are falsy.
TruthyNum(x) == x # NULL /\ x[1] # 0

\* Python truthiness of a text column value: None and "" are falsy.
TruthyText(x) == x # NULL /\ x[1] # EmptyText

\* Python's  x or d  on a numeric column value.
PyOr(x, d) == IF TruthyNum(x) THEN x[1] ELSE d

(***************************************************************************)
(* Exact rational arithmetic standing for Python's float arithmetic.       *)
(***************************************************************************)
Abs(n) == IF n < 0 THEN -n ELSE n

RECURSIVE GCD(_, _)
GCD(a, b) == IF b = 0 THEN a ELSE GCD(b, a % b)

Norm(n, d) ==
    LET g == GCD(Abs(n), Abs(d))
        s == IF d < 0 THEN -1 ELSE 1
    IN  <<(s * n) \div g, (s * d) \div g>>

R(n) == <<n, 1>>

RAdd(a, b) == Norm(a[1] * b[2] + b[1] * a[2], a[2] * b[2])

RMul(a, b) ==
    LET g1 == GCD(Abs(a[1]), b[2])
        g2 == GCD(Abs(b[1]), a[2])
    IN  Norm((a[1] \div g1) * (b[1] \div g2), (a[2] \div g2) * (b[2] \div g1))

\* b is not zero.
RDiv(a, b) == RMul(a, Norm(b[2], b[1]))

(***************************************************************************)
(* datetime.strptime(text, "%Y-%m-%d").date()                              *)
(***************************************************************************)
IsLeap(y) == (y % 4 = 0 /\ y % 100 # 0) \/ y % 400 = 0

DaysInMonth(y, m) ==
    IF m = 2 THEN (IF IsLeap(y) THEN 29 ELSE 28)
    ELSE IF m \in {4, 6, 9, 11} THEN 30 ELSE 31

\* A strptime that checks the shape only, not the ranges.
StrptimeLenient(parts) == Len(parts) = 3

\* TRUE when strptime returns a date, FALSE when it raises ValueError.
StrptimeOk(parts) ==
    /\ Len(parts) = 3
    /\ parts[1] \in 1..9999
    /\ parts[2] \in 1..12
    /\ parts[3] \in 1..DaysInMonth(parts[1], parts[2])

Strptime(parts) == [year |-> parts[1], month |-> parts[2], day |-> parts[3]]

(***************************************************************************)
(* Project rows.  The columns the forecast reads, plus id and name.        *)
(***************************************************************************)
Row(name, status, value, sd, esd, dur, like, margin, director) ==
    [ name                     |-> name,
      status                   |-> status,
      contract_value           |-> value,
      start_date               |-> sd,
      expected_start_date      |-> esd,
      expected_duration_months |-> dur,
      likelihood_pct           |-> like,
      expected_margin_pct      |-> margin,
      director_involvement_pct |-> director ]

\* Rows of demo_projects in seed_demo_data.
DemoConsumerConfidence ==
    Row("Consumer Confidence Survey Q1", "Active", Val(45000),
        Val(<<2026, 1, 15>>), Val(EmptyText), Val(3), Val(100), Val(35), Val(15))

DemoEUBarometer ==
    Row("EU Barometer Wave 12", "Pipeline", Val(120000),
        Val(EmptyText), Val(<<2026, 4, 1>>), Val(4), Val(75), Val(22), Val(25))

DemoCustomerSatisfaction ==
    Row("Customer Satisfaction - Telco", "Completed", Val(28000),
        Val(<<2025, 10, 1>>), Val(EmptyText), Val(3), Val(100), Val(42), Val(10))

\* A project won after it was forecast: both of its dates are filled in.
WonBrandTracking ==
    Row("Brand Tracking Wave 8", "Active", Val(30000),
        Val(<<2026, 2, 1>>), Val(<<2025, 11, 20>>), Val(3), Val(100), Val(38), Val(10))

\* The rows add_project is called with.
ProjectInputs ==
    {DemoConsumerConfidence, DemoEUBarometer, DemoCustomerSatisfaction, WonBrandTracking}

\* The (column, value) pairs update_project is called with.
UpdateInputs ==
    ({"status"} \X PROJECT_STATUSES)
    \cup ({"contract_value"} \X {NULL})
    \cup ({"start_date"} \X {NULL, Val(<<2026, 2, 30>>)})
    \cup ({"expected_start_date"} \X {Val(<<2026, 13, 1>>), Val(<<2025, 11, 20>>)})
    \cup ({"expected_duration_months"} \X {NULL, Val(0), Val(-2)})
    \cup ({"likelihood_pct"} \X {NULL, Val(100)})
    \cup ({"expected_margin_pct"} \X {NULL})
    \cup ({"director_involvement_pct"} \X {NULL, Val(90)})

\* The (start_year, start_month, num_months) the forecast is called with;
\* 12 is the default num_months.
ForecastInputs == {<<2026, 1, 12>>, <<2026, 1, 3>>, <<2025, 11, 4>>, <<2026, 4, 0>>}

(***************************************************************************)
(* get_projects(): SELECT * FROM projects ORDER BY status, name            *)
(***************************************************************************)
\* Position of a string in the ascending (binary) collation of the strings
\* the model uses.
TextRank(s) ==
    CASE s = "Active" -> 1
      [] s = "Completed" -> 2
      [] s = "Lost" -> 3
      [] s = "On Hold" -> 4
      [] s = "Pipeline" -> 5
      [] s = "Brand Tracking Wave 8" -> 1
      [] s = "Consumer Confidence Survey Q1" -> 2
      [] s = "Customer Satisfaction - Telco" -> 3
      [] s = "EU Barometer Wave 12" -> 4
      [] s = "Maria Papadopoulou" -> 1
      [] s = "Yannis Dimitriou" -> 2

\* Rows with equal status and name come in rowid order.
OrderedBefore(p, q) ==
    \/ TextRank(p.status) < TextRank(q.status)
    \/ /\ p.status = q.status
       /\ \/ TextRank(p.name) < TextRank(q.name)
          \/ p.name = q.name /\ p.id < q.id

RECURSIVE SortRows(_)
SortRows(rows) ==
    IF rows = {} THEN <<>>
    ELSE LET first == CHOOSE p \in rows : \A q \in rows \ {p} : OrderedBefore(p, q)
         IN  <<first>> \o SortRows(rows \ {first})

get_projects(table) == SortRows(table)

(***************************************************************************)
(* get_monthly_revenue_forecast: the accumulation loop.                    *)
(***************************************************************************)
\* Skipped without "Completed".
SkippedLostOnly(proj) == proj.status = "Lost"

\* if proj["status"] in ("Lost", "Completed"): continue
Skipped(proj) == proj.status \in {"Lost", "Completed"}

ContractValue(proj) == PyOr(proj.contract_value, 0)

\* Duration guarding None only.
DurationNoneOnly(proj) ==
    IF proj.expected_duration_months = NULL THEN 1 ELSE proj.expected_duration_months[1]

Duration(proj) == PyOr(proj.expected_duration_months, 1)

\* The stored likelihood for every status.
LikelihoodStored(proj) == proj.likelihood_pct

\* NULL (None) when a Pipeline row stores no likelihood_pct.
Likelihood(proj) == IF proj.status = "Pipeline" THEN proj.likelihood_pct ELSE Val(100)

MarginPct(proj) == PyOr(proj.expected_margin_pct, 0)

\* The director percentage divided over the months of the project.
DirectorPctSpread(proj) ==
    IF Duration(proj) >= 1
    THEN PyOr(proj.director_involvement_pct, 0) \div Duration(proj)
    ELSE PyOr(proj.director_involvement_pct, 0)

DirectorPct(proj) == PyOr(proj.director_involvement_pct, 0)

\* Anchor falling back to expected_start_date when start_date does not parse.
AnchorFallsBack(proj) ==
    IF proj.status = "Active" /\ TruthyText(proj.start_date)
          /\ StrptimeOk(proj.start_date[1])
    THEN <<Strptime(proj.start_date[1])>>
    ELSE IF TruthyText(proj.expected_start_date)
    THEN IF StrptimeOk(proj.expected_start_date[1])
         THEN <<Strptime(proj.expected_start_date[1])>>
         ELSE <<>>
    ELSE <<>>

\* The start date for revenue recognition: <<sd>>, or <<>> when the code
\* reaches a  continue  (no date to use, or strptime raised ValueError).
Anchor(proj) ==
    IF proj.status = "Active" /\ TruthyText(proj.start_date)
    THEN IF StrptimeOk(proj.start_date[1])
         THEN <<Strptime(proj.start_date[1])>>
         ELSE <<>>
    ELSE IF TruthyText(proj.expected_start_date)
    THEN IF StrptimeOk(proj.expected_start_date[1])
         THEN <<Strptime(proj.expected_start_date[1])>>
         ELSE <<>>
    ELSE <<>>

\* The exception the arithmetic before the month loop raises, or "none".
ArithmeticError(proj) ==
    IF Duration(proj) = 0 THEN "ZeroDivisionError"
    ELSE IF Likelihood(proj) = NULL THEN "TypeError"
    ELSE "none"

\* Contribution with likelihood_pct used as the weight without the division
\* by 100.
ContributionWeightedByPercent(proj) ==
    LET monthly_revenue  == RDiv(R(ContractValue(proj)), R(Duration(proj)))
        weighted_revenue == RMul(monthly_revenue, R(Likelihood(proj)[1]))
    IN  [ revenue              |-> monthly_revenue,
          weighted_revenue     |-> weighted_revenue,
          profit               |-> RDiv(RMul(monthly_revenue, R(MarginPct(proj))), R(100)),
          weighted_profit      |-> RDiv(RMul(weighted_revenue, R(MarginPct(proj))), R(100)),
          director_involvement |-> R(DirectorPct(proj)) ]

\* Contribution with the whole contract value booked in every month.
ContributionNotSpread(proj) ==
    LET monthly_revenue  == R(ContractValue(proj))
        weighted_revenue == RDiv(RMul(monthly_revenue, R(Likelihood(proj)[1])), R(100))
    IN  [ revenue              |-> monthly_revenue,
          weighted_revenue     |-> weighted_revenue,
          profit               |-> RDiv(RMul(monthly_revenue, R(MarginPct(proj))), R(100)),
          weighted_profit      |-> RDiv(RMul(weighted_revenue, R(MarginPct(proj))), R(100)),
          director_involvement |-> R(DirectorPct(proj)) ]

\* What the project adds to each month it covers: the values computed before
\* and inside the month loop, which do not depend on i.
Contribution(proj) ==
    LET monthly_revenue  == RDiv(R(ContractValue(proj)), R(Duration(proj)))
        weighted_revenue == RDiv(RMul(monthly_revenue, R(Likelihood(proj)[1])), R(100))
        weighted_profit  == RDiv(RMul(weighted_revenue, R(MarginPct(proj))), R(100))
        monthly_director == R(DirectorPct(proj))
    IN  [ revenue              |-> monthly_revenue,
          weighted_revenue     |-> weighted_revenue,
          profit               |-> RDiv(RMul(monthly_revenue, R(MarginPct(proj))), R(100)),
          weighted_profit      |-> weighted_profit,
          director_involvement |-> monthly_director ]

\* BucketKey with the month counted from 0.
BucketKeyZeroBased(sd, i) ==
    LET m == sd.month + i
    IN  <<sd.year + m \div 12, (m % 12) + 1>>

\* key = (y, m) of the i-th month of a project starting at sd.
BucketKey(sd, i) ==
    LET m == sd.month + i
    IN  <<sd.year + (m - 1) \div 12, ((m - 1) % 12) + 1>>

ZeroBucket(y, m) ==
    [ year |-> y, month |-> m,
      revenue |-> R(0), weighted_revenue |-> R(0),
      profit |-> R(0), weighted_profit |-> R(0),
      director_involvement |-> R(0), project_count |-> 0 ]

\* The loop body assigning the project's values instead of adding them.
AddToBucketOverwrite(fc, key, c) ==
    LET old == IF key \in DOMAIN fc THEN fc[key] ELSE ZeroBucket(key[1], key[2])
        new == [ old EXCEPT
                   !.revenue = c.revenue,
                   !.weighted_revenue = c.weighted_revenue,
                   !.profit = c.profit,
                   !.weighted_profit = c.weighted_profit,
                   !.director_involvement = c.director_involvement,
                   !.project_count = @ + 1 ]
    IN  (key :> new) @@ fc

\* One pass of the body of  for i in range(duration).
AddToBucket(fc, key, c) ==
    LET old == IF key \in DOMAIN fc THEN fc[key] ELSE ZeroBucket(key[1], key[2])
        new == [ old EXCEPT
                   !.revenue = RAdd(@, c.revenue),
                   !.weighted_revenue = RAdd(@, c.weighted_revenue),
                   !.profit = RAdd(@, c.profit),
                   !.weighted_profit = RAdd(@, c.weighted_profit),
                   !.director_involvement = RAdd(@, c.director_involvement),
                   !.project_count = @ + 1 ]
    IN  (key :> new) @@ fc

\* for i in range(duration), from i on; range of a negative number is empty.
RECURSIVE MonthLoop(_, _, _, _, _)
\* The month loop running one month past the duration.
MonthLoopInclusive(fc, c, sd, duration, i) ==
    IF i > duration THEN fc
    ELSE MonthLoop(AddToBucket(fc, BucketKey(sd, i), c), c, sd, duration, i + 1)

MonthLoop(fc, c, sd, duration, i) ==
    IF i >= duration THEN fc
    ELSE MonthLoop(AddToBucket(fc, BucketKey(sd, i), c), c, sd, duration, i + 1)

\* for proj in projects, from position k on.  The outcome is the dict built
\* and the exception that ended the loop, if any.
RECURSIVE ProjectLoop(_, _, _)
ProjectLoop(projs, k, fc) ==
    IF k > Len(projs) THEN [raised |-> "none", forecast |-> fc]
    ELSE LET proj == projs[k] IN
         IF Skipped(proj) \/ Anchor(proj) = <<>>
         THEN ProjectLoop(projs, k + 1, fc)
         ELSE IF ArithmeticError(proj) # "none"
         THEN [raised |-> ArithmeticError(proj), forecast |-> fc]
         ELSE ProjectLoop(projs, k + 1,
                  MonthLoop(fc, Contribution(proj), Anchor(proj)[1], Duration(proj), 0))

EmptyDict == [key \in {} |-> 0]

(***************************************************************************)
(* get_monthly_revenue_forecast: the requested window.                     *)
(***************************************************************************)
\* WindowKey with the month counted from 0.
WindowKeyZeroBased(start_year, start_month, i) ==
    LET m == start_month + i
    IN  <<start_year + m \div 12, (m % 12) + 1>>

WindowKey(start_year, start_month, i) ==
    LET m == start_month + i
    IN  <<start_year + (m - 1) \div 12, ((m - 1) % 12) + 1>>

\* The window leaving out the months no project was added to.
WindowOnlyStored(fc, start_year, start_month, num_months) ==
    SelectSeq([ j \in 1..num_months |->
                  LET key == WindowKey(start_year, start_month, j - 1)
                  IN  IF key \in DOMAIN fc THEN fc[key] ELSE ZeroBucket(key[1], key[2]) ],
              LAMBDA b : <<b.year, b.month>> \in DOMAIN fc)

Window(fc, start_year, start_month, num_months) ==
    [ j \in 1..num_months |->
        LET key == WindowKey(start_year, start_month, j - 1)
        IN  IF key \in DOMAIN fc THEN fc[key] ELSE ZeroBucket(key[1], key[2]) ]

(***************************************************************************)
(* The operations.                                                         *)
(***************************************************************************)
NoCall == [op |-> "none", args |-> <<>>]

\* The committed contents of the four tables.
Snapshot ==
    [ projects |-> projects, employees |-> employees,
      time_allocations |-> time_allocations, budget_items |-> budget_items ]

\* reader holds the locals of a get_project_margin call that runs its three
\* reads as separate steps, the store each read saw (reads) and every store
\* committed since the call began (seen).  No such call is running.
IdleReader ==
    [ pc |-> "idle", project_id |-> 0, revenue |-> 0, personnel_cost |-> R(0),
      reads |-> <<>>, seen |-> {} ]

\* conn.commit(): the store a writing call leaves is a committed store, seen
\* by a get_project_margin call in progress.
Observed ==
    reader' = IF reader.pc = "idle" THEN reader
              ELSE [reader EXCEPT !.seen = @ \cup {Snapshot'}]

Init ==
    /\ projects = {}
    /\ nextId = 1
    /\ writes = 0
    /\ call = NoCall
    /\ raised = "none"
    /\ forecast = EmptyDict
    /\ result = <<>>
    /\ employees = {}
    /\ nextEmployeeId = 1
    /\ time_allocations = {}
    /\ budget_items = {}
    /\ nextBudgetId = 1
    /\ reader = IdleReader

\* What an operation other than the forecast leaves of the last forecast.
Returns(op, args) ==
    /\ call' = [op |-> op, args |-> args]
    /\ raised' = "none"
    /\ forecast' = EmptyDict
    /\ result' = <<>>

\* add_project(...): INSERT with an AUTOINCREMENT id.
AddProject(row) ==
    /\ writes < MaxWrites
    /\ projects' = projects \cup {[id |-> nextId] @@ row}
    /\ nextId' = nextId + 1
    /\ writes' = writes + 1
    /\ Returns("add_project", <<nextId>>)
    /\ UNCHANGED otherTables
    /\ Observed

\* update_project(project_id, column=value): UPDATE ... WHERE id = ?
UpdateProject(id, column, value) ==
    /\ writes < MaxWrites
    /\ projects' = { IF p.id = id THEN [p EXCEPT ![column] = value] ELSE p : p \in projects }
    /\ writes' = writes + 1
    /\ UNCHANGED nextId
    /\ Returns("update_project", <<id>>)
    /\ UNCHANGED otherTables
    /\ Observed

\* The dict the previous call built, kept for this call.
RetainedDict == forecast

\* forecast = {}: every call starts from a dict of its own.
FreshDict == EmptyDict

\* The first month of the window as the month index year * 12 + month.
WindowStart(a) == a[1] * 12 + a[2]

\* The forecast accumulating only the projects anchored inside the window.
GetMonthlyRevenueForecastInWindow ==
    \E a \in ForecastInputs :
      \E acc \in {ProjectLoop(get_projects(
                     { p \in projects :
                         Anchor(p) # <<>> =>
                           Anchor(p)[1].year * 12 + Anchor(p)[1].month
                             \in WindowStart(a)..(WindowStart(a) + a[3] - 1) }),
                   1, FreshDict)} :
        /\ call' = [op |-> "get_monthly_revenue_forecast", args |-> a]
        /\ raised' = acc.raised
        /\ forecast' = acc.forecast
        /\ result' = IF acc.raised = "none"
                     THEN Window(acc.forecast, a[1], a[2], a[3])
                     ELSE <<>>
        /\ UNCHANGED <<projects, nextId, writes>>
        /\ UNCHANGED otherTables
        /\ UNCHANGED reader

\* get_monthly_revenue_forecast(start_year, start_month, num_months): the
\* accumulation reads the table only, the window reads the arguments.
GetMonthlyRevenueForecast ==
    \E acc \in {ProjectLoop(get_projects(projects), 1, FreshDict)} :
      \E a \in ForecastInputs :
        /\ call' = [op |-> "get_monthly_revenue_forecast", args |-> a]
        /\ raised' = acc.raised
        /\ forecast' = acc.forecast
        /\ result' = IF acc.raised = "none"
                     THEN Window(acc.forecast, a[1], a[2], a[3])
                     ELSE <<>>
        /\ UNCHANGED <<projects, nextId, writes>>
        /\ UNCHANGED otherTables
        /\ UNCHANGED reader

Next ==
    \/ \E row \in ProjectInputs : AddProject(row)
    \/ \E p \in projects, u \in UpdateInputs : UpdateProject(p.id, u[1], u[2])
    \/ GetMonthlyRevenueForecast

Spec == Init /\ [][Next]_vars

(***************************************************************************)
(* pages/5_Pipeline.py: the composite score of a Pipeline row.             *)
(***************************************************************************)
\* a <= b
RLe(a, b) == a[1] * b[2] <= b[1] * a[2]

\* Python's min(a, b) and max(a, b).
RMin(a, b) == IF RLe(a, b) THEN a ELSE b

RMax(a, b) == IF RLe(b, a) THEN a ELSE b

\* The columns of a row of get_pipeline_summary() that the score reads, each
\* of them set (the forms of pages/2_Projects.py always set them).
PipelineRows ==
    [ contract_value      : {0, 45000, 150000, 300000},
      likelihood_pct      : {0, 75, 100},
      expected_margin_pct : {-100, -15, 0, 22, 100},
      reputation_score    : {1, 5},
      exports_oriented    : {0, 1} ]

\* The composite without the max(0, ...) around the margin.
CompositeUnclamped(p) ==
    LET value_score == RMin(RMul(RDiv(R(p.contract_value), R(150000)), R(5)), R(5))
    IN  RAdd(RAdd(RAdd(RAdd(
          RMul(RMul(RDiv(R(p.likelihood_pct), R(100)), R(5)), Norm(35, 100)),
          RMul(RMul(RDiv(R(p.expected_margin_pct), R(50)), R(5)), Norm(25, 100))),
          RMul(R(p.reputation_score), Norm(20, 100))),
          RMul(R(IF p.exports_oriented # 0 THEN 5 ELSE 2), Norm(10, 100))),
          RMul(value_score, Norm(10, 100)))

\* composite, before  round(composite, 2)  brings it to the table.
Composite(p) ==
    LET value_score == RMin(RMul(RDiv(R(p.contract_value), R(150000)), R(5)), R(5))
    IN  RAdd(RAdd(RAdd(RAdd(
          RMul(RMul(RDiv(R(p.likelihood_pct), R(100)), R(5)), Norm(35, 100)),
          RMul(RMul(RDiv(RMax(R(0), R(p.expected_margin_pct)), R(50)), R(5)), Norm(25, 100))),
          RMul(R(p.reputation_score), Norm(20, 100))),
          RMul(R(IF p.exports_oriented # 0 THEN 5 ELSE 2), Norm(10, 100))),
          RMul(value_score, Norm(10, 100)))

\* One pass of  for p in pipeline  on the row p.
PipelineScore(p) ==
    /\ call' = [op |-> "pipeline_score", args |-> <<p>>]
    /\ raised' = "none"
    /\ forecast' = EmptyDict
    /\ result' = <<Composite(p)>>
    /\ UNCHANGED <<projects, nextId, writes>>
    /\ UNCHANGED otherTables
    /\ UNCHANGED reader

NextScore == \E p \in PipelineRows : PipelineScore(p)

SpecScore == Init /\ [][NextScore]_vars

(***************************************************************************)
(* Employees, time allocations, budget items and the project margin.       *)
(***************************************************************************)
\* Rows of demo_employees in seed_demo_data: the columns the costs read.
DemoMaria == [name |-> "Maria Papadopoulou", monthly_salary |-> 6000]

DemoYannis == [name |-> "Yannis Dimitriou", monthly_salary |-> 1500]

EmployeeInputs == {DemoMaria, DemoYannis}

\* The (year, month) and allocation_pct set_allocation is called with.
AllocationMonths == {<<2026, 1>>, <<2026, 2>>}

AllocationPcts == {0, 50, 100}

\* Amounts of budget_items in seed_demo_data.
BudgetAmounts == {2400, 800}

\* The rows add_project and the (column, value) pairs update_project are
\* called with where margins are read.
MarginProjectInputs == {DemoEUBarometer}

MarginUpdateInputs ==
    ({"status"} \X {"Lost", "Completed"}) \cup ({"contract_value"} \X {NULL, Val(0)})

\* time_allocations JOIN employees ON employee_id = id WHERE project_id = ?,
\* with the optional year and month conditions (NULL: no condition).
JoinedAllocations(allocs, emps, project_id, year, month) ==
    { <<ta, e>> \in allocs \X emps :
        /\ ta.employee_id = e.id
        /\ ta.project_id = project_id
        /\ year # NULL => ta.year = year[1]
        /\ month # NULL => ta.month = month[1] }

\* e.monthly_salary * ta.allocation_pct / 100.0
Cost(ta, e) == RDiv(RMul(R(e.monthly_salary), R(ta.allocation_pct)), R(100))

CostRow(ta, e) ==
    [ year |-> ta.year, month |-> ta.month, allocation_pct |-> ta.allocation_pct,
      employee_id |-> e.id, employee_name |-> e.name,
      monthly_salary |-> e.monthly_salary, cost |-> Cost(ta, e) ]

\* ORDER BY ta.year, ta.month, e.name; rows equal in these come in rowid order.
CostRowBefore(r, q) ==
    \/ r.year * 12 + r.month < q.year * 12 + q.month
    \/ /\ r.year = q.year /\ r.month = q.month
       /\ \/ TextRank(r.employee_name) < TextRank(q.employee_name)
          \/ r.employee_name = q.employee_name /\ r.employee_id < q.employee_id

RECURSIVE SortCostRows(_)
SortCostRows(rows) ==
    IF rows = {} THEN <<>>
    ELSE LET first == CHOOSE r \in rows : \A q \in rows \ {r} : CostRowBefore(r, q)
         IN  <<first>> \o SortCostRows(rows \ {first})

\* The cost rows ignoring the year and month asked for.
get_project_personnel_costs_unfiltered(allocs, emps, project_id, year, month) ==
    SortCostRows({ CostRow(j[1], j[2]) :
                     j \in JoinedAllocations(allocs, emps, project_id, NULL, NULL) })

get_project_personnel_costs(allocs, emps, project_id, year, month) ==
    SortCostRows({ CostRow(j[1], j[2]) :
                     j \in JoinedAllocations(allocs, emps, project_id, year, month) })

\* SUM(e.monthly_salary * ta.allocation_pct / 100.0) over joined rows.
RECURSIVE SumCost(_)
SumCost(joined) ==
    IF joined = {} THEN R(0)
    ELSE LET j == CHOOSE x \in joined : TRUE
         IN  RAdd(Cost(j[1], j[2]), SumCost(joined \ {j}))

\* COALESCE(SUM(...), 0)
get_project_total_personnel_cost(allocs, emps, project_id) ==
    SumCost(JoinedAllocations(allocs, emps, project_id, NULL, NULL))

\* SUM(amount) over rows.
RECURSIVE SumAmount(_)
SumAmount(items) ==
    IF items = {} THEN R(0)
    ELSE LET b == CHOOSE x \in items : TRUE
         IN  RAdd(R(b.amount), SumAmount(items \ {b}))

\* COALESCE(SUM(amount), 0) FROM budget_items WHERE project_id = ?
get_budget_total(items, project_id) ==
    SumAmount({ b \in items : b.project_id = project_id })

\* SELECT * FROM projects WHERE id = ?: <<row>>, or NULL for None.
get_project(table, project_id) ==
    IF \E p \in table : p.id = project_id
    THEN Val(CHOOSE p \in table : p.id = project_id)
    ELSE NULL

\* margin_pct as a fraction of the revenue instead of a percentage.
margin_pct_fraction(margin, revenue) ==
    IF revenue > 0 THEN RDiv(margin, R(revenue)) ELSE R(0)

\* margin_pct = (margin / revenue * 100) if revenue > 0 else 0
margin_pct(margin, revenue) ==
    IF revenue > 0 THEN RMul(RDiv(margin, R(revenue)), R(100)) ELSE R(0)

\* The margin leaving the budget items out of the total cost.
get_project_margin_personnel_only(table, allocs, emps, items, project_id) ==
    LET proj == get_project(table, project_id) IN
    IF proj = NULL THEN NULL
    ELSE LET revenue == PyOr(proj[1].contract_value, 0)
             personnel_cost == get_project_total_personnel_cost(allocs, emps, project_id)
             non_personnel_cost == get_budget_total(items, project_id)
             total_cost == personnel_cost
             margin == RAdd(R(revenue), RMul(R(-1), total_cost))
         IN  Val([ revenue |-> R(revenue),
                   personnel_cost |-> personnel_cost,
                   non_personnel_cost |-> non_personnel_cost,
                   total_cost |-> total_cost,
                   margin |-> margin,
                   margin_pct |-> margin_pct(margin, revenue) ])

\* get_project_margin(project_id): NULL for None, else <<the dict>>.
get_project_margin(table, allocs, emps, items, project_id) ==
    LET proj == get_project(table, project_id) IN
    IF proj = NULL THEN NULL
    ELSE LET revenue == PyOr(proj[1].contract_value, 0)
             personnel_cost == get_project_total_personnel_cost(allocs, emps, project_id)
             non_personnel_cost == get_budget_total(items, project_id)
             total_cost == RAdd(personnel_cost, non_personnel_cost)
             margin == RAdd(R(revenue), RMul(R(-1), total_cost))
         IN  Val([ revenue |-> R(revenue),
                   personnel_cost |-> personnel_cost,
                   non_personnel_cost |-> non_personnel_cost,
                   total_cost |-> total_cost,
                   margin |-> margin,
                   margin_pct |-> margin_pct(margin, revenue) ])

\* The list of margins without the test on the status.
get_all_project_margins_unfiltered(table, allocs, emps, items) ==
    LET rows == get_projects(table)
    IN  [ i \in 1..Len(rows) |->
            get_project_margin(table, allocs, emps, items, rows[i].id)[1]
              @@ [ project_id |-> rows[i].id, project_name |-> rows[i].name,
                   status |-> rows[i].status ] ]

\* The summaries of the Active and Pipeline projects only, as the docstring of
\* get_all_project_margins words it.
get_all_project_margins_active_pipeline(table, allocs, emps, items) ==
    LET rows == SelectSeq(get_projects(table),
                          LAMBDA proj : proj.status \in {"Active", "Pipeline"})
    IN  [ i \in 1..Len(rows) |->
            get_project_margin(table, allocs, emps, items, rows[i].id)[1]
              @@ [ project_id |-> rows[i].id, project_name |-> rows[i].name,
                   status |-> rows[i].status ] ]

\* get_all_project_margins(): one dict per project that is not Lost, in the
\* order of get_projects().
get_all_project_margins(table, allocs, emps, items) ==
    LET rows == SelectSeq(get_projects(table), LAMBDA proj : proj.status \notin {"Lost"})
    IN  [ i \in 1..Len(rows) |->
            get_project_margin(table, allocs, emps, items, rows[i].id)[1]
              @@ [ project_id |-> rows[i].id, project_name |-> rows[i].name,
                   status |-> rows[i].status ] ]

\* A reading operation that stores the revenue it used (0 for an unset
\* contract_value) back into the projects table.
AnswersWritingBack(op, args, res) ==
    /\ call' = [op |-> op, args |-> args]
    /\ raised' = "none"
    /\ forecast' = EmptyDict
    /\ result' = res
    /\ projects' = { [p EXCEPT !.contract_value = Val(PyOr(p.contract_value, 0))] :
                       p \in projects }
    /\ UNCHANGED <<nextId, writes>>
    /\ UNCHANGED otherTables
    /\ UNCHANGED reader

\* What a reading operation leaves: its result, the store as it was.
Answers(op, args, res) ==
    /\ call' = [op |-> op, args |-> args]
    /\ raised' = "none"
    /\ forecast' = EmptyDict
    /\ result' = res
    /\ UNCHANGED <<projects, nextId, writes>>
    /\ UNCHANGED otherTables
    /\ UNCHANGED reader

\* add_employee(name, role, monthly_salary): INSERT with an AUTOINCREMENT id.
AddEmployee(e) ==
    /\ writes < MaxWrites
    /\ employees' = employees \cup {[id |-> nextEmployeeId] @@ e}
    /\ nextEmployeeId' = nextEmployeeId + 1
    /\ writes' = writes + 1
    /\ Returns("add_employee", <<nextEmployeeId>>)
    /\ UNCHANGED <<projects, nextId, time_allocations, budget_items, nextBudgetId>>
    /\ Observed

\* Every row of time_allocations, the one with this key included: a table
\* without UNIQUE(employee_id, project_id, year, month) nor the DELETE.
AllAllocations(employee_id, project_id, year, month) == time_allocations

\* The rows of time_allocations other than the one with this key.
OtherAllocations(employee_id, project_id, year, month) ==
    { ta \in time_allocations :
        <<ta.employee_id, ta.project_id, ta.year, ta.month>>
          # <<employee_id, project_id, year, month>> }

\* set_allocation(employee_id, project_id, year, month, allocation_pct):
\* DELETE when the percentage is not positive, else INSERT ... ON CONFLICT DO
\* UPDATE; a foreign key without its row raises and get_db rolls back.
SetAllocation(employee_id, project_id, year, month, allocation_pct) ==
    /\ writes < MaxWrites
    /\ writes' = writes + 1
    /\ call' = [op |-> "set_allocation",
                args |-> <<employee_id, project_id, year, month, allocation_pct>>]
    /\ forecast' = EmptyDict
    /\ result' = <<>>
    /\ IF allocation_pct <= 0
       THEN /\ time_allocations' = OtherAllocations(employee_id, project_id, year, month)
            /\ raised' = "none"
       ELSE IF \/ ~\E e \in employees : e.id = employee_id
               \/ ~\E p \in projects : p.id = project_id
       THEN /\ raised' = "IntegrityError"
            /\ UNCHANGED time_allocations
       ELSE /\ time_allocations' =
                 OtherAllocations(employee_id, project_id, year, month)
                   \cup {[ employee_id |-> employee_id, project_id |-> project_id,
                           year |-> year, month |-> month,
                           allocation_pct |-> allocation_pct ]}
            /\ raised' = "none"
    /\ UNCHANGED <<projects, nextId, employees, nextEmployeeId, budget_items, nextBudgetId>>
    /\ Observed

\* add_budget_item on a connection that does not enforce foreign keys.
AddBudgetItemUnchecked(project_id, amount) ==
    /\ writes < MaxWrites
    /\ writes' = writes + 1
    /\ call' = [op |-> "add_budget_item", args |-> <<project_id, amount>>]
    /\ forecast' = EmptyDict
    /\ result' = <<>>
    /\ budget_items' = budget_items
         \cup {[id |-> nextBudgetId, project_id |-> project_id, amount |-> amount]}
    /\ nextBudgetId' = nextBudgetId + 1
    /\ raised' = "none"
    /\ UNCHANGED <<projects, nextId, employees, nextEmployeeId, time_allocations>>
    /\ Observed

\* add_budget_item(project_id, category, description, amount)
AddBudgetItem(project_id, amount) ==
    /\ writes < MaxWrites
    /\ writes' = writes + 1
    /\ call' = [op |-> "add_budget_item", args |-> <<project_id, amount>>]
    /\ forecast' = EmptyDict
    /\ result' = <<>>
    /\ IF \E p \in projects : p.id = project_id
       THEN /\ budget_items' = budget_items
                 \cup {[id |-> nextBudgetId, project_id |-> project_id, amount |-> amount]}
            /\ nextBudgetId' = nextBudgetId + 1
            /\ raised' = "none"
       ELSE /\ raised' = "IntegrityError"
            /\ UNCHANGED <<budget_items, nextBudgetId>>
    /\ UNCHANGED <<projects, nextId, employees, nextEmployeeId, time_allocations>>
    /\ Observed

GetProjectPersonnelCosts(project_id, year, month) ==
    Answers("get_project_personnel_costs", <<project_id, year, month>>,
            get_project_personnel_costs(time_allocations, employees, project_id, year, month))

GetProjectTotalPersonnelCost(project_id) ==
    Answers("get_project_total_personnel_cost", <<project_id>>,
            get_project_total_personnel_cost(time_allocations, employees, project_id))

GetProjectMargin(project_id) ==
    Answers("get_project_margin", <<project_id>>,
            get_project_margin(projects, time_allocations, employees, budget_items, project_id))

GetAllProjectMargins ==
    Answers("get_all_project_margins", <<>>,
            get_all_project_margins(projects, time_allocations, employees, budget_items))

\* A store holding the first demo project and the first demo employee.
InitMargin ==
    /\ projects = {[id |-> 1] @@ DemoConsumerConfidence}
    /\ nextId = 2
    /\ writes = 0
    /\ call = NoCall
    /\ raised = "none"
    /\ forecast = EmptyDict
    /\ result = <<>>
    /\ employees = {[id |-> 1] @@ DemoMaria}
    /\ nextEmployeeId = 2
    /\ time_allocations = {}
    /\ budget_items = {}
    /\ nextBudgetId = 1
    /\ reader = IdleReader

\* The year and month filters of get_project_personnel_costs.
CostFilters == {<<NULL, NULL>>, <<Val(2026), Val(1)>>}

NextMargin ==
    \/ \E row \in MarginProjectInputs : AddProject(row)
    \/ \E p \in projects, u \in MarginUpdateInputs : UpdateProject(p.id, u[1], u[2])
    \/ \E e \in EmployeeInputs : AddEmployee(e)
    \/ \E e \in employees, p \in projects, ym \in AllocationMonths, pct \in AllocationPcts :
         SetAllocation(e.id, p.id, ym[1], ym[2], pct)
    \/ \E p \in projects, amount \in BudgetAmounts : AddBudgetItem(p.id, amount)
    \/ \E p \in projects, f \in CostFilters : GetProjectPersonnelCosts(p.id, f[1], f[2])
    \/ \E p \in projects : GetProjectTotalPersonnelCost(p.id)
    \/ \E id \in 1..nextId : GetProjectMargin(id)
    \/ GetAllProjectMargins
    \/ GetMonthlyRevenueForecast

SpecMargin == InitMargin /\ [][NextMargin]_vars

(***************************************************************************)
(* get_project_margin next to another writer: its three reads are three    *)
(* get_db transactions, and a commit can fall between two of them.         *)
(***************************************************************************)
\* All the reads of a call served from the store its first read saw.
ReadStoreOfFirstRead(rd) == rd.reads[1]

\* with get_db() as conn: each read opens a connection of its own and sees
\* the store committed at that moment.
ReadStore(rd) == Snapshot

\* proj = get_project(project_id); if not proj: return None;
\* revenue = proj["contract_value"] or 0
MarginReadProject(project_id) ==
    /\ reader.pc = "idle"
    /\ LET proj == get_project(projects, project_id) IN
       IF proj = NULL
       THEN /\ reader' = IdleReader
            /\ call' = [op |-> "get_project_margin", args |-> <<project_id>>]
            /\ raised' = "none"
            /\ forecast' = EmptyDict
            /\ result' = NULL
       ELSE /\ reader' = [ pc |-> "personnel", project_id |-> project_id,
                           revenue |-> PyOr(proj[1].contract_value, 0),
                           personnel_cost |-> R(0),
                           reads |-> <<Snapshot>>, seen |-> {Snapshot} ]
            /\ UNCHANGED <<call, raised, forecast, result>>
    /\ UNCHANGED <<projects, nextId, writes>>
    /\ UNCHANGED otherTables

\* personnel_cost = get_project_total_personnel_cost(project_id)
MarginReadPersonnel ==
    /\ reader.pc = "personnel"
    /\ \E store \in {ReadStore(reader)} :
         reader' = [ reader EXCEPT
                       !.pc = "budget",
                       !.personnel_cost =
                          get_project_total_personnel_cost(
                              store.time_allocations, store.employees, reader.project_id),
                       !.reads = Append(@, Snapshot) ]
    /\ UNCHANGED <<call, raised, forecast, result>>
    /\ UNCHANGED <<projects, nextId, writes>>
    /\ UNCHANGED otherTables

\* non_personnel_cost = get_budget_total(project_id), and the rest of
\* get_project_margin up to its return.
MarginReadBudget ==
    /\ reader.pc = "budget"
    /\ \E store \in {ReadStore(reader)} :
         LET non_personnel_cost == get_budget_total(store.budget_items, reader.project_id)
             total_cost == RAdd(reader.personnel_cost, non_personnel_cost)
             margin == RAdd(R(reader.revenue), RMul(R(-1), total_cost))
         IN  result' = Val([ revenue |-> R(reader.revenue),
                             personnel_cost |-> reader.personnel_cost,
                             non_personnel_cost |-> non_personnel_cost,
                             total_cost |-> total_cost,
                             margin |-> margin,
                             margin_pct |-> margin_pct(margin, reader.revenue) ])
    /\ call' = [op |-> "get_project_margin", args |-> <<reader.project_id>>]
    /\ raised' = "none"
    /\ forecast' = EmptyDict
    /\ reader' = [reader EXCEPT !.pc = "idle", !.reads = Append(@, Snapshot)]
    /\ UNCHANGED <<projects, nextId, writes>>
    /\ UNCHANGED otherTables

NextTorn ==
    \/ \E p \in projects, u \in MarginUpdateInputs : UpdateProject(p.id, u[1], u[2])
    \/ \E e \in employees, p \in projects, ym \in AllocationMonths, pct \in AllocationPcts :
         SetAllocation(e.id, p.id, ym[1], ym[2], pct)
    \/ \E p \in projects, amount \in BudgetAmounts : AddBudgetItem(p.id, amount)
    \/ \E id \in 1..nextId : MarginReadProject(id)
    \/ MarginReadPersonnel
    \/ MarginReadBudget

SpecTorn == InitMargin /\ [][NextTorn]_vars

(***************************************************************************)
(* The store under every writing call: deletes with their cascades, calls  *)
(* with ids that have no row, and seed_demo_data.                          *)
(***************************************************************************)
\* A child table after a DELETE of its parent row without ON DELETE CASCADE.
CascadeOff(rows, column, id) == rows

\* REFERENCES ... ON DELETE CASCADE with PRAGMA foreign_keys = ON: the rows
\* of a child table left when the parent row with this id is deleted.
Cascade(rows, column, id) == { r \in rows : r[column] # id }

\* delete_employee(employee_id): DELETE FROM employees WHERE id = ?
DeleteEmployee(employee_id) ==
    /\ writes < MaxWrites
    /\ writes' = writes + 1
    /\ employees' = { e \in employees : e.id # employee_id }
    /\ time_allocations' = Cascade(time_allocations, "employee_id", employee_id)
    /\ Returns("delete_employee", <<employee_id>>)
    /\ UNCHANGED <<projects, nextId, nextEmployeeId, budget_items, nextBudgetId>>
    /\ Observed

\* delete_project(project_id): DELETE FROM projects WHERE id = ?
DeleteProject(project_id) ==
    /\ writes < MaxWrites
    /\ writes' = writes + 1
    /\ projects' = { p \in projects : p.id # project_id }
    /\ time_allocations' = Cascade(time_allocations, "project_id", project_id)
    /\ budget_items' = Cascade(budget_items, "project_id", project_id)
    /\ Returns("delete_project", <<project_id>>)
    /\ UNCHANGED <<nextId, employees, nextEmployeeId, nextBudgetId>>
    /\ Observed

\* delete_budget_item(item_id): DELETE FROM budget_items WHERE id = ?
DeleteBudgetItem(item_id) ==
    /\ writes < MaxWrites
    /\ writes' = writes + 1
    /\ budget_items' = { b \in budget_items : b.id # item_id }
    /\ Returns("delete_budget_item", <<item_id>>)
    /\ UNCHANGED <<projects, nextId, employees, nextEmployeeId, time_allocations,
                   nextBudgetId>>
    /\ Observed

\* The rows of the demo lists of seed_demo_data the model keeps, in the
\* order of the lists.
DemoEmployees == <<DemoMaria, DemoYannis>>

DemoProjects == <<DemoConsumerConfidence, DemoEUBarometer, DemoCustomerSatisfaction>>

\* allocations followed by jan_allocations: (emp_name, proj_name, y, m, pct).
DemoAllocations ==
    << <<"Maria Papadopoulou", "Consumer Confidence Survey Q1", 2026, 2, 15>>,
       <<"Yannis Dimitriou", "Consumer Confidence Survey Q1", 2026, 2, 70>>,
       <<"Maria Papadopoulou", "Consumer Confidence Survey Q1", 2026, 1, 20>>,
       <<"Yannis Dimitriou", "Consumer Confidence Survey Q1", 2026, 1, 80>> >>

\* budget_items: (proj_name, amount).
DemoBudgetItems ==
    << <<"Consumer Confidence Survey Q1", 2400>>,
       <<"Consumer Confidence Survey Q1", 800>> >>

\* {row["name"]: row["id"] for row in rows}: a later row of the same name
\* replaces an earlier one.
NameMap(rows) ==
    [ n \in { rows[i].name : i \in DOMAIN rows } |->
        rows[CHOOSE i \in DOMAIN rows :
               /\ rows[i].name = n
               /\ \A j \in DOMAIN rows : j > i => rows[j].name # n].id ]

\* {e["name"]: e["id"] for e in get_employees()}: the demo employees were
\* added to an empty table, one row per name, so that the order of
\* get_employees does not show in the dict.
EmpMap(emps) ==
    [ n \in { e.name : e \in emps } |-> (CHOOSE e \in emps : e.name = n).id ]

\* The for loop over the allocation lists: set_allocation for the names both
\* maps know, with a positive percentage and ids that exist.
RECURSIVE SeedAllocations(_, _, _, _)
SeedAllocations(allocs, list, emp_map, proj_map) ==
    IF list = <<>> THEN allocs
    ELSE LET a == Head(list)
             key == <<emp_map[a[1]], proj_map[a[2]], a[3], a[4]>>
         IN  IF a[1] \in DOMAIN emp_map /\ a[2] \in DOMAIN proj_map
             THEN SeedAllocations(
                      { ta \in allocs :
                          <<ta.employee_id, ta.project_id, ta.year, ta.month>> # key }
                        \cup {[ employee_id |-> key[1], project_id |-> key[2],
                                year |-> a[3], month |-> a[4],
                                allocation_pct |-> a[5] ]},
                      Tail(list), emp_map, proj_map)
             ELSE SeedAllocations(allocs, Tail(list), emp_map, proj_map)

\* A seed_demo_data that never finds data in the store.
NeverHasData == FALSE

\* employees = get_employees(); if employees: return
AlreadyHasData == employees # {}

\* seed_demo_data(): nothing when the store has an employee; else the demo
\* employees and projects are added, then the allocations and budget items
\* of the names found in the store.
SeedDemoData ==
    /\ writes < MaxWrites
    /\ writes' = writes + 1
    /\ Returns("seed_demo_data", <<>>)
    /\ IF AlreadyHasData
       THEN UNCHANGED <<projects, nextId, employees, nextEmployeeId, time_allocations,
                        budget_items, nextBudgetId>>
       ELSE /\ employees' = employees \cup
                 { [id |-> nextEmployeeId + i - 1] @@ DemoEmployees[i] :
                     i \in DOMAIN DemoEmployees }
            /\ nextEmployeeId' = nextEmployeeId + Len(DemoEmployees)
            /\ projects' = projects \cup
                 { [id |-> nextId + i - 1] @@ DemoProjects[i] : i \in DOMAIN DemoProjects }
            /\ nextId' = nextId + Len(DemoProjects)
            /\ \E emp_map \in {EmpMap(employees')},
                  proj_map \in {NameMap(get_projects(projects'))} :
                 /\ time_allocations' =
                      SeedAllocations(time_allocations, DemoAllocations, emp_map, proj_map)
                 /\ \E listed \in {{ i \in DOMAIN DemoBudgetItems :
                                      DemoBudgetItems[i][1] \in DOMAIN proj_map }} :
                      /\ budget_items' = budget_items \cup
                           { [ id |-> nextBudgetId + Cardinality({j \in listed : j < i}),
                               project_id |-> proj_map[DemoBudgetItems[i][1]],
                               amount |-> DemoBudgetItems[i][2] ] : i \in listed }
                      /\ nextBudgetId' = nextBudgetId + Cardinality(listed)
    /\ Observed

\* The rows add_employee and add_project are called with where the store is
\* written with ids of every kind.
StoreEmployeeInputs == {DemoMaria}

StoreProjectInputs == {DemoConsumerConfidence}

NextStore ==
    \/ \E e \in StoreEmployeeInputs : AddEmployee(e)
    \/ \E row \in StoreProjectInputs : AddProject(row)
    \/ \E id \in 1..nextEmployeeId : DeleteEmployee(id)
    \/ \E id \in 1..nextId : DeleteProject(id)
    \/ \E employee_id \in 1..nextEmployeeId, project_id \in 1..nextId,
          ym \in AllocationMonths, pct \in AllocationPcts :
         SetAllocation(employee_id, project_id, ym[1], ym[2], pct)
    \/ \E project_id \in 1..nextId, amount \in BudgetAmounts :
         AddBudgetItem(project_id, amount)
    \/ \E id \in 1..nextBudgetId : DeleteBudgetItem(id)
    \/ SeedDemoData

SpecStore == Init /\ [][NextStore]_vars

(***************************************************************************)
(* Vocabulary of the properties.                                           *)
(***************************************************************************)
ForecastCalled == call.op = "get_monthly_revenue_forecast"

ForecastReturned == ForecastCalled /\ raised = "none"

\* The calendar month after (y, m), counted the way a calendar does.
NextMonth(ym) == IF ym[2] = 12 THEN <<ym[1] + 1, 1>> ELSE <<ym[1], ym[2] + 1>>

RECURSIVE PlusMonths(_, _)
PlusMonths(ym, i) == IF i = 0 THEN ym ELSE PlusMonths(NextMonth(ym), i - 1)

\* The months a project starting at date sd covers when it lasts d months.
MonthsFrom(sd, d) == { PlusMonths(<<sd.year, sd.month>>, i) : i \in 0..(d - 1) }

ValidDate(text) == TruthyText(text) /\ StrptimeOk(text[1])

\* The months the code adds a project to.
CoveredMonths(p) ==
    IF Skipped(p) \/ Anchor(p) = <<>> THEN {}
    ELSE MonthsFrom(Anchor(p)[1], Duration(p))

IsZeroBucket(b) ==
    /\ b.revenue = R(0) /\ b.weighted_revenue = R(0)
    /\ b.profit = R(0) /\ b.weighted_profit = R(0)
    /\ b.director_involvement = R(0) /\ b.project_count = 0

\* C1: a forecast call that returns yields exactly num_months entries, the
\* j-th for the month j-1 months after (start_year, start_month), in strictly
\* increasing chronological order, and all-zero where no project contributes.
C1_WindowShape ==
    ForecastReturned =>
      /\ Len(result) = call.args[3]
      /\ \A j \in 1..Len(result) :
           /\ <<result[j].year, result[j].month>>
                = PlusMonths(<<call.args[1], call.args[2]>>, j - 1)
           /\ (\A p \in projects : <<result[j].year, result[j].month>> \notin CoveredMonths(p))
                => IsZeroBucket(result[j])
      /\ \A j \in 1..(Len(result) - 1) :
           result[j].year * 12 + result[j].month
             < result[j + 1].year * 12 + result[j + 1].month

\* A window over a year end with a covered first month and an empty last one.
C1_Witness ==
    /\ ForecastReturned
    /\ call.args = <<2025, 11, 4>>
    /\ result[1].project_count > 0
    /\ result[3].year = 2026
    /\ IsZeroBucket(result[4])

\* The outcome of the accumulation loop on the rows of a table.
Accumulated(table) == ProjectLoop(get_projects(table), 1, EmptyDict)

\* The last forecast call ended as a call on this table would have: the same
\* exception or none, the same dict, the same list returned.
SameForecastAs(table) ==
    \A acc \in {Accumulated(table)} :
      /\ raised = acc.raised
      /\ forecast = acc.forecast
      /\ result = IF acc.raised = "none"
                  THEN Window(acc.forecast, call.args[1], call.args[2], call.args[3])
                  ELSE <<>>

\* C2: Lost and Completed projects never change the forecast: the call ends
\* as it would on the table without them, whatever their dates, value and
\* duration.
C2_TerminalIgnored ==
    ForecastCalled =>
      SameForecastAs({p \in projects : p.status \notin {"Lost", "Completed"}})

\* A Lost or Completed project with a usable date and a value, next to a
\* project that contributes.
C2_Witness ==
    /\ ForecastReturned
    /\ forecast # EmptyDict
    /\ \E p \in projects :
         /\ p.status \in {"Lost", "Completed"}
         /\ ValidDate(p.expected_start_date)
         /\ TruthyNum(p.contract_value)
         /\ Duration(p) >= 1

\* C3: bucket keys and output entries have month in 1..12 and carry their key;
\* a contributing project is counted in the month i months after its anchor
\* for each i below its duration, and a project anchored in November with
\* duration 4 fills exactly November, December, January and February.
C3_Rollover ==
    ForecastCalled =>
      /\ \A key \in DOMAIN forecast :
           /\ key[2] \in 1..12
           /\ forecast[key].year = key[1] /\ forecast[key].month = key[2]
      /\ \A j \in 1..Len(result) : result[j].month \in 1..12
      /\ raised = "none" =>
           /\ \A p \in projects : \A key \in CoveredMonths(p) :
                key \in DOMAIN forecast /\ forecast[key].project_count >= 1
           /\ DOMAIN forecast = UNION { CoveredMonths(p) : p \in projects }
           /\ \A p \in projects :
                (projects = {p} /\ CoveredMonths(p) # {}
                   /\ Anchor(p)[1].month = 11 /\ Duration(p) = 4)
                => \A y \in {Anchor(p)[1].year} :
                     DOMAIN forecast = {<<y, 11>>, <<y, 12>>, <<y + 1, 1>>, <<y + 1, 2>>}

\* One project anchored in November 2025 with duration 4.
C3_Witness ==
    /\ ForecastReturned
    /\ \E p \in projects :
         /\ projects = {p}
         /\ Anchor(p) # <<>> /\ Anchor(p)[1].month = 11 /\ Duration(p) = 4
    /\ DOMAIN forecast = {<<2025, 11>>, <<2025, 12>>, <<2026, 1>>, <<2026, 2>>}

\* The anchor as C4 states it: start_date for an Active project when it is a
\* valid date, otherwise expected_start_date when valid, otherwise none.
ClaimedAnchor(p) ==
    IF p.status = "Active" /\ ValidDate(p.start_date)
    THEN <<Strptime(p.start_date[1])>>
    ELSE IF ValidDate(p.expected_start_date)
    THEN <<Strptime(p.expected_start_date[1])>>
    ELSE <<>>

\* The anchor as amended: an Active project with a non-empty start_date is
\* anchored there or, when that is no valid date, skipped.
AmendedAnchor(p) ==
    IF p.status = "Active" /\ TruthyText(p.start_date)
    THEN IF ValidDate(p.start_date) THEN <<Strptime(p.start_date[1])>> ELSE <<>>
    ELSE IF ValidDate(p.expected_start_date)
    THEN <<Strptime(p.expected_start_date[1])>>
    ELSE <<>>

\* A forecast that returned counts each non-terminal project in exactly the
\* months from anchor(p) on, for as many months as range(duration) has.
AnchoredBy(anchor(_)) ==
    \A months \in
         { [ p \in projects |->
               IF Skipped(p) \/ anchor(p) = <<>> THEN {}
               ELSE MonthsFrom(anchor(p)[1], Duration(p)) ] } :
      /\ DOMAIN forecast = UNION { months[p] : p \in projects }
      /\ \A key \in DOMAIN forecast :
           forecast[key].project_count
             = Cardinality({ p \in projects : key \in months[p] })

\* C4 as stated: every non-terminal project is anchored at start_date when
\* Active with a valid start_date, otherwise at expected_start_date when valid
\* (also when an Active project's start_date is non-empty and invalid).
C4_AnchorAsClaimed == ForecastReturned => AnchoredBy(ClaimedAnchor)

\* C4 amended: an Active project with a non-empty start_date is anchored at
\* start_date when it is valid and skipped when it is not; any other
\* non-terminal project is anchored at expected_start_date when valid; a
\* project without anchor is skipped.
C4_AnchorChoice == ForecastReturned => AnchoredBy(AmendedAnchor)

\* An Active project with an invalid start_date and a valid
\* expected_start_date was skipped.
C4_Witness ==
    /\ ForecastReturned
    /\ \E p \in projects :
         /\ p.status = "Active"
         /\ TruthyText(p.start_date) /\ ~StrptimeOk(p.start_date[1])
         /\ ValidDate(p.expected_start_date)
         /\ Duration(p) >= 1
         /\ <<2025, 11>> \notin DOMAIN forecast

\* C5 as stated: a negative expected_duration_months counts as duration 1,
\* so the call ends as it would with every negative duration stored as 1 (the
\* full contract_value in the anchor month, counted once).
C5_NegativeDurationAsOne ==
    ForecastCalled =>
      SameForecastAs(
        { IF p.expected_duration_months # NULL /\ p.expected_duration_months[1] < 0
          THEN [p EXCEPT !.expected_duration_months = Val(1)]
          ELSE p : p \in projects })

\* C6: a project whose expected_duration_months is 0 or unset never makes the
\* forecast divide by zero; it counts as duration 1: it is counted in its
\* anchor month, and when it is the only project that month is the only bucket
\* and holds revenue = contract_value.
C6_ZeroDurationAsOne ==
    ForecastCalled =>
      /\ raised # "ZeroDivisionError"
      /\ raised = "none" =>
           \A p \in projects :
             (~Skipped(p) /\ Anchor(p) # <<>>
                /\ p.expected_duration_months \in {NULL, Val(0)})
             => \A key \in {<<Anchor(p)[1].year, Anchor(p)[1].month>>} :
                  /\ key \in DOMAIN forecast
                  /\ forecast[key].project_count >= 1
                  /\ projects = {p} =>
                       /\ DOMAIN forecast = {key}
                       /\ forecast[key].project_count = 1
                       /\ forecast[key].revenue = R(PyOr(p.contract_value, 0))

\* A single project with a value and a stored duration of 0 was forecast.
C6_Witness ==
    /\ ForecastReturned
    /\ \E p \in projects :
         /\ projects = {p}
         /\ p.expected_duration_months = Val(0)
         /\ p.contract_value = Val(45000)
         /\ DOMAIN forecast = {<<2026, 1>>}
         /\ forecast[<<2026, 1>>].revenue = R(45000)

\* C7 as stated, for the forecast: whatever the stored rows, a call of
\* get_monthly_revenue_forecast returns without raising.
C7_ForecastNeverRaises == ForecastCalled => raised = "none"

\* The date string the code picks for a project, NULL when it picks none.
ChosenDateText(p) ==
    IF p.status = "Active" /\ TruthyText(p.start_date) THEN p.start_date
    ELSE IF TruthyText(p.expected_start_date) THEN p.expected_start_date
    ELSE NULL

UnparseableAnchor(p) ==
    /\ ChosenDateText(p) # NULL
    /\ \/ Len(ChosenDateText(p)[1]) # 3
       \/ ChosenDateText(p)[1][2] \notin 1..12
       \/ ChosenDateText(p)[1][3] \notin 1..DaysInMonth(ChosenDateText(p)[1][1],
                                                         ChosenDateText(p)[1][2])

\* C8: a project whose chosen anchor date string does not parse is excluded
\* whole and silently: the call raises no ValueError and ends exactly as it
\* would on the table without these projects.
C8_UnparseableExcluded ==
    ForecastCalled =>
      /\ raised # "ValueError"
      /\ SameForecastAs({p \in projects : ~UnparseableAnchor(p)})

\* A non-terminal project with a value and an unparseable anchor string was
\* skipped while another project contributed.
C8_Witness ==
    /\ ForecastReturned
    /\ forecast # EmptyDict
    /\ \E p \in projects :
         /\ ~Skipped(p)
         /\ UnparseableAnchor(p)
         /\ TruthyNum(p.contract_value)
         /\ Duration(p) >= 1

\* The likelihood C9 states: 100 unless the project is a Pipeline project.
ClaimedLikelihood(p) == IF p.status = "Pipeline" THEN p.likelihood_pct[1] ELSE 100

\* x * pct / 100
Percent(x, pct) == RDiv(RMul(x, R(pct)), R(100))

C10_SingleProject ==
    ForecastReturned =>
      /\ \A p \in projects :
           (projects = {p} /\ CoveredMonths(p) # {})
           => \A key \in CoveredMonths(p) : \A b \in {forecast[key]} :
                /\ b.revenue = RDiv(R(PyOr(p.contract_value, 0)), R(Duration(p)))
                /\ b.weighted_revenue = Percent(b.revenue, ClaimedLikelihood(p))
                /\ b.profit = Percent(b.revenue, PyOr(p.expected_margin_pct, 0))
                /\ b.weighted_profit
                     = Percent(b.weighted_revenue, PyOr(p.expected_margin_pct, 0))
      /\ (projects = {[id |-> 1] @@ DemoConsumerConfidence} /\ call.args = <<2026, 1, 3>>)
           => /\ Len(result) = 3
              /\ \A j \in 1..3 :
                   /\ <<result[j].year, result[j].month>> = <<2026, j>>
                   /\ result[j].revenue = R(15000)
                   /\ result[j].weighted_revenue = R(15000)
                   /\ result[j].profit = R(5250)

\* The example: the Active project alone, forecast from 2026-01 for 3 months.
C10_Witness ==
    /\ ForecastReturned
    /\ projects = {[id |-> 1] @@ DemoConsumerConfidence}
    /\ call.args = <<2026, 1, 3>>
    /\ result[3].project_count = 1

\* The sum of one field over the buckets with the given keys.
RECURSIVE SumOver(_, _, _)
SumOver(fc, keys, field) ==
    IF keys = {} THEN R(0)
    ELSE LET key == CHOOSE k \in keys : TRUE
         IN  RAdd(fc[key][field], SumOver(fc, keys \ {key}, field))

\* A project the loop reaches the month loop with, of positive duration.
Contributing(p) == ~Skipped(p) /\ Anchor(p) # <<>> /\ Duration(p) >= 1

\* C11: a contributing project of positive duration D anchored at month A is
\* counted in exactly the D consecutive months A .. A+D-1: these are D distinct
\* buckets of the dict, each bucket's project_count is the number of
\* contributing projects covering its month, and the revenue of a lone
\* project summed over its D months is D * (contract_value / D).
C11_ConsecutiveMonths ==
    ForecastReturned =>
      /\ \A p \in projects : Contributing(p) =>
           \A months \in {MonthsFrom(Anchor(p)[1], Duration(p))} :
             /\ Cardinality(months) = Duration(p)
             /\ months \subseteq DOMAIN forecast
             /\ projects = {p} =>
                  /\ DOMAIN forecast = months
                  /\ SumOver(forecast, months, "revenue")
                       = RMul(R(Duration(p)),
                              RDiv(R(PyOr(p.contract_value, 0)), R(Duration(p))))
      /\ \A key \in DOMAIN forecast :
           forecast[key].project_count
             = Cardinality({ p \in projects :
                   /\ Contributing(p)
                   /\ key \in MonthsFrom(Anchor(p)[1], Duration(p)) })

\* Two contributing projects of duration 3 overlap in February and March 2026
\* and each has a month of its own.
C11_Witness ==
    /\ ForecastReturned
    /\ Cardinality({p \in projects : Contributing(p) /\ Duration(p) = 3}) = 2
    /\ DOMAIN forecast = {<<2026, 1>>, <<2026, 2>>, <<2026, 3>>, <<2026, 4>>}
    /\ forecast[<<2026, 1>>].project_count = 1
    /\ forecast[<<2026, 2>>].project_count = 2
    /\ forecast[<<2026, 4>>].project_count = 1

\* The sequences that list every element of a set once.
Orders(S) ==
    { f \in [1..Cardinality(S) -> S] : \A i, j \in 1..Cardinality(S) : f[i] = f[j] => i = j }

BucketFields ==
    {"revenue", "weighted_revenue", "profit", "weighted_profit", "director_involvement"}

\* The sum over the given projects of what each alone puts in a bucket's field.
RECURSIVE SumOfSingles(_, _, _, _)
SumOfSingles(single, ps, key, field) ==
    IF ps = {} THEN R(0)
    ELSE LET p == CHOOSE q \in ps : TRUE
         IN  RAdd(IF key \in DOMAIN single[p] THEN single[p][key][field] ELSE R(0),
                  SumOfSingles(single, ps \ {p}, key, field))

MonthIndex(key) == key[1] * 12 + key[2]

\* C13: the window does not affect accumulation: the entry returned for a
\* month is the entry every other window containing that month returns on the
\* same table, and it counts every contributing project covering the month,
\* also one anchored before the window or running past its end.
C13_WindowIndependent ==
    ForecastReturned =>
      /\ \A j \in 1..Len(result) :
           result[j].project_count
             = Cardinality({ p \in projects :
                   /\ Contributing(p)
                   /\ <<result[j].year, result[j].month>>
                        \in MonthsFrom(Anchor(p)[1], Duration(p)) })
      /\ \A acc \in {Accumulated(projects)} :
           \A a \in ForecastInputs :
             \A other \in {Window(acc.forecast, a[1], a[2], a[3])} :
               \A j \in 1..Len(result), k \in 1..Len(other) :
                 (result[j].year = other[k].year /\ result[j].month = other[k].month)
                   => result[j] = other[k]

\* The window January to March 2026 with a project anchored before it and a
\* project running past its end, both counted in February.
C13_Witness ==
    /\ ForecastReturned
    /\ call.args = <<2026, 1, 3>>
    /\ \E p \in projects :
         /\ Contributing(p)
         /\ MonthIndex(<<Anchor(p)[1].year, Anchor(p)[1].month>>) < MonthIndex(<<2026, 1>>)
         /\ <<2026, 2>> \in MonthsFrom(Anchor(p)[1], Duration(p))
    /\ \E q \in projects :
         /\ Contributing(q)
         /\ <<2026, 4>> \in MonthsFrom(Anchor(q)[1], Duration(q))
    /\ result[2].project_count = 2

ScoreCalled == call.op = "pipeline_score"

\* C14 as stated: the composite score of a row within the data-model ranges
\* lies between 0 and 5 inclusive.
C14_ScoreInScale ==
    ScoreCalled => RLe(R(0), result[1]) /\ RLe(result[1], R(5))

\* C15: the margin term is clamped and the value term saturates: a row with a
\* negative expected_margin_pct scores as the same row with margin 0, and a
\* row with contract_value >= 150000 scores as the same row with 150000, so
\* any two rows equal but for such contract values score the same.
C15_ClampAndSaturate ==
    ScoreCalled =>
      \A p \in {call.args[1]} :
        /\ p.expected_margin_pct < 0
             => result[1] = Composite([p EXCEPT !.expected_margin_pct = 0])
        /\ p.contract_value >= 150000
             => result[1] = Composite([p EXCEPT !.contract_value = 150000])

\* A row with margin -15 and contract value 300000 was scored: likelihood 75,
\* reputation 5, exports-oriented give 1.3125 + 0 + 1.0 + 0.5 + 0.5.
C15_Witness ==
    /\ ScoreCalled
    /\ call.args[1] = [ contract_value |-> 300000, likelihood_pct |-> 75,
                        expected_margin_pct |-> -15, reputation_score |-> 5,
                        exports_oriented |-> 1 ]
    /\ result[1] = Norm(33125, 10000)

MarginReturned == call.op = "get_project_margin" /\ result # NULL

\* The sum of the amounts of budget rows, counted one row at a time.
RECURSIVE TotalAmount(_)
TotalAmount(rows) ==
    IF rows = {} THEN 0
    ELSE LET b == CHOOSE x \in rows : TRUE
         IN  b.amount + TotalAmount(rows \ {b})

\* a - b
RSub(a, b) == RAdd(a, RMul(R(-1), b))

\* C16: get_project_margin of a stored project returns revenue = its
\* contract_value (0 when unset), non_personnel_cost = the sum of the amounts
\* of its budget items (0 when it has none), total_cost = personnel_cost +
\* non_personnel_cost and margin = revenue - total_cost, negative when the
\* costs exceed the revenue.
C16_MarginRecord ==
    MarginReturned =>
      \A p \in {q \in projects : q.id = call.args[1]} : \A m \in {result[1]} :
        /\ m.revenue = (IF p.contract_value = NULL THEN R(0) ELSE R(p.contract_value[1]))
        /\ m.non_personnel_cost
             = R(TotalAmount({b \in budget_items : b.project_id = p.id}))
        /\ (~\E b \in budget_items : b.project_id = p.id) => m.non_personnel_cost = R(0)
        /\ m.total_cost = RAdd(m.personnel_cost, m.non_personnel_cost)
        /\ m.margin = RSub(m.revenue, m.total_cost)
        /\ RLe(m.revenue, m.total_cost) /\ m.revenue # m.total_cost => m.margin[1] < 0

\* The demo project of 45000 with half of a 6000 salary for one month and a
\* budget item of 2400: costs 3000 + 2400, margin 39600.
C16_Witness ==
    /\ MarginReturned
    /\ call.args = <<1>>
    /\ result[1].revenue = R(45000)
    /\ result[1].personnel_cost = R(3000)
    /\ result[1].non_personnel_cost = R(2400)
    /\ result[1].total_cost = R(5400)
    /\ result[1].margin = R(39600)

\* C17: get_project_margin never divides by zero: with revenue 0 (also when
\* contract_value is unset) margin_pct is exactly 0 whatever the costs, and
\* with revenue > 0 margin_pct = margin / revenue * 100.
C17_MarginPct ==
    call.op = "get_project_margin" =>
      /\ raised = "none"
      /\ result # NULL =>
           \A m \in {result[1]} :
             /\ m.revenue = R(0) => m.margin_pct = R(0)
             /\ m.revenue[1] > 0
                  => m.margin_pct = RMul(RDiv(m.margin, m.revenue), R(100))

\* A project whose contract_value is unset and that has costs: margin_pct 0
\* next to a negative margin.
C17_Witness ==
    /\ MarginReturned
    /\ \E p \in projects : p.id = call.args[1] /\ p.contract_value = NULL
    /\ result[1].total_cost[1] > 0
    /\ result[1].margin[1] < 0
    /\ result[1].margin_pct = R(0)

\* The sum of the cost column of a list of cost rows.
RECURSIVE TotalCost(_)
TotalCost(rows) ==
    IF rows = <<>> THEN R(0) ELSE RAdd(rows[1].cost, TotalCost(Tail(rows)))

\* C18: personnel cost is the sum over allocation rows of monthly_salary *
\* allocation_pct / 100: get_project_personnel_costs without filter returns
\* one row per allocation of the project with that cost; with a (year, month)
\* filter exactly the rows of that month; get_project_total_personnel_cost is
\* the sum of the cost of the unfiltered rows, 0 without allocations.
C18_PersonnelCost ==
    /\ call.op = "get_project_personnel_costs" =>
         \A all \in {get_project_personnel_costs(time_allocations, employees,
                                                 call.args[1], NULL, NULL)} :
           /\ \A i \in 1..Len(result) :
                result[i].cost
                  = RDiv(R(result[i].monthly_salary * result[i].allocation_pct), R(100))
           /\ (call.args[2] = NULL /\ call.args[3] = NULL) =>
                /\ Len(result)
                     = Cardinality({ta \in time_allocations : ta.project_id = call.args[1]})
                /\ \A ta \in time_allocations : ta.project_id = call.args[1] =>
                     \E i \in 1..Len(result) :
                       /\ <<result[i].employee_id, result[i].year, result[i].month>>
                            = <<ta.employee_id, ta.year, ta.month>>
                       /\ result[i].allocation_pct = ta.allocation_pct
                       /\ \E e \in employees :
                            e.id = ta.employee_id /\ result[i].monthly_salary = e.monthly_salary
           /\ (call.args[2] # NULL /\ call.args[3] # NULL) =>
                result = SelectSeq(all, LAMBDA r : r.year = call.args[2][1]
                                                     /\ r.month = call.args[3][1])
    /\ call.op = "get_project_total_personnel_cost" =>
         /\ result = TotalCost(get_project_personnel_costs(time_allocations, employees,
                                                          call.args[1], NULL, NULL))
         /\ (~\E ta \in time_allocations : ta.project_id = call.args[1]) => result = R(0)

\* The costs of project 1 for January 2026 were asked for while it also has
\* an allocation in February: one row of 3000 is returned.
C18_Witness ==
    /\ call.op = "get_project_personnel_costs"
    /\ call.args = <<1, Val(2026), Val(1)>>
    /\ Cardinality({ta \in time_allocations : ta.project_id = 1}) >= 2
    /\ \E ta \in time_allocations : ta.project_id = 1 /\ ta.month = 2
    /\ Len(result) = 1
    /\ result[1].cost = R(3000)

\* C19: a Lost project never appears in get_all_project_margins, every other
\* project appears once, and the list is the one the same store without the
\* Lost projects gives.
C19_LostExcluded ==
    call.op = "get_all_project_margins" =>
      /\ \A i \in 1..Len(result) :
           /\ result[i].status # "Lost"
           /\ \E p \in projects : p.id = result[i].project_id /\ p.status # "Lost"
      /\ Len(result) = Cardinality({p \in projects : p.status # "Lost"})
      /\ \A p \in projects : p.status # "Lost" =>
           \E i \in 1..Len(result) : result[i].project_id = p.id
      /\ result = get_all_project_margins({p \in projects : p.status # "Lost"},
                                          time_allocations, employees, budget_items)

\* A Lost project with a budget item next to a project that is listed.
C19_Witness ==
    /\ call.op = "get_all_project_margins"
    /\ \E p \in projects :
         /\ p.status = "Lost"
         /\ \E b \in budget_items : b.project_id = p.id
    /\ Len(result) = 1

tables == <<employees, projects, time_allocations, budget_items>>

AnalyticOps ==
    {"get_monthly_revenue_forecast", "get_project_margin", "get_all_project_margins"}

\* C21: neither analytic function writes back: a step that is a call of
\* get_monthly_revenue_forecast, get_project_margin or get_all_project_margins
\* leaves the employees, projects, time_allocations and budget_items tables
\* as they were.
C21_NoWriteBack == [][call'.op \in AnalyticOps => UNCHANGED tables]_vars

\* The margins of a store with an unset contract_value, an allocation and a
\* budget item were listed.
C21_Witness ==
    /\ call.op = "get_all_project_margins"
    /\ \E p \in projects : p.contract_value = NULL
    /\ time_allocations # {}
    /\ budget_items # {}
    /\ Len(result) >= 1

\* The sum of director_involvement_pct (0 when unset) over projects.
RECURSIVE TotalDirector(_)
TotalDirector(ps) ==
    IF ps = {} THEN 0
    ELSE LET p == CHOOSE q \in ps : TRUE
         IN  PyOr(p.director_involvement_pct, 0) + TotalDirector(ps \ {p})

\* C22: the director_involvement of a bucket is the plain sum of
\* director_involvement_pct over the contributing projects covering its
\* month: not scaled by likelihood, not divided by duration, not capped.
C22_DirectorPlainSum ==
    ForecastReturned =>
      \A key \in DOMAIN forecast :
        forecast[key].director_involvement
          = R(TotalDirector({ p \in projects :
                  Contributing(p) /\ key \in MonthsFrom(Anchor(p)[1], Duration(p)) }))

\* Two overlapping projects, one of them a Pipeline project at likelihood 75
\* and 90 percent director time, give a bucket above 100.
C22_Witness ==
    /\ ForecastReturned
    /\ \E p \in projects :
         /\ Contributing(p) /\ p.status = "Pipeline" /\ p.likelihood_pct = Val(75)
         /\ p.director_involvement_pct = Val(90)
    /\ \E key \in DOMAIN forecast :
         /\ forecast[key].project_count = 2
         /\ forecast[key].director_involvement[1] > 100

\* C23: with the single Pipeline project of 120000 at likelihood 75 expected
\* to start on 2026-04-01 for 4 months, the forecast from 2026-01 for 12
\* months has twelve entries, January to December 2026: weighted_revenue 0
\* in January to March, revenue 30000 and weighted_revenue 22500 in April to
\* July, and 0 in August to December.
C23_PipelineExample ==
    (/\ ForecastCalled
     /\ projects = {[id |-> 1] @@ DemoEUBarometer}
     /\ call.args = <<2026, 1, 12>>)
    => /\ raised = "none"
       /\ Len(result) = 12
       /\ \A j \in 1..12 :
            /\ <<result[j].year, result[j].month>> = <<2026, j>>
            /\ j \in 4..7 => /\ result[j].revenue = R(30000)
                             /\ result[j].weighted_revenue = R(22500)
            /\ j \notin 4..7 => /\ result[j].revenue = R(0)
                                /\ result[j].weighted_revenue = R(0)

\* The example store was forecast for the twelve months of 2026.
C23_Witness ==
    /\ ForecastReturned
    /\ projects = {[id |-> 1] @@ DemoEUBarometer}
    /\ call.args = <<2026, 1, 12>>
    /\ result[7].weighted_revenue = R(22500)
    /\ result[8].project_count = 0

\* A get_project_margin call that ran as three reads has returned a dict.
TornReturned ==
    /\ call.op = "get_project_margin"
    /\ result # NULL
    /\ reader.pc = "idle"
    /\ Len(reader.reads) = 3

\* Revenue, personnel cost and budget total of a project in one store.
TripleIn(store, project_id) ==
    <<R(PyOr(get_project(store.projects, project_id)[1].contract_value, 0)),
      get_project_total_personnel_cost(store.time_allocations, store.employees, project_id),
      get_budget_total(store.budget_items, project_id)>>

ReturnedTriple ==
    <<result[1].revenue, result[1].personnel_cost, result[1].non_personnel_cost>>

\* C24: get_project_margin makes three separate reads: the revenue returned
\* is the one of the store at the first read, the personnel cost the one of
\* the store at the second read and the budget total the one of the store at
\* the third read, each a committed store, with no single store behind all
\* three being required (the witness is a torn record).
C24_SeparateReads ==
    TornReturned =>
      /\ \A i \in 1..3 : reader.reads[i] \in reader.seen
      /\ \A i \in 1..3 :
           ReturnedTriple[i] = TripleIn(reader.reads[i], reader.project_id)[i]
      /\ result[1].total_cost
           = RAdd(result[1].personnel_cost, result[1].non_personnel_cost)
      /\ result[1].margin = RSub(result[1].revenue, result[1].total_cost)

\* A torn record: commits fell between the reads, and the revenue, personnel
\* cost and budget total returned were together in no store committed from
\* the first read to the return.
C24_Witness ==
    /\ TornReturned
    /\ Cardinality(reader.seen) >= 2
    /\ \A store \in reader.seen : TripleIn(store, reader.project_id) # ReturnedTriple

\* The ids of the projects get_all_project_margins returned a summary for.
SummarisedIds == { result[i].project_id : i \in 1..Len(result) }

AllocKey(ta) == <<ta.employee_id, ta.project_id, ta.year, ta.month>>

EmployeeIds == { e.id : e \in employees }

ProjectIds == { p.id : p \in projects }

counters == <<nextId, nextEmployeeId, nextBudgetId>>

\* Every stored percentage is positive and no two rows have the same key.
OneRowPerKey ==
    /\ \A ta \in time_allocations : ta.allocation_pct > 0
    /\ \A ta, tb \in time_allocations : AllocKey(ta) = AllocKey(tb) => ta = tb

\* C25: under any sequence of writing calls time_allocations holds at most
\* one row per (employee_id, project_id, year, month) and only positive
\* percentages; a set_allocation call that returns leaves a row of its key
\* exactly when its allocation_pct is positive, holding that value, and
\* leaves the rows of every other key and the other tables as they were; an
\* employee's rows of one month may add up to more than 100 (the witness).
C25_OneRowPerKey ==
    [][ /\ OneRowPerKey'
        /\ (call'.op = "set_allocation" /\ raised' = "none") =>
             LET key == SubSeq(call'.args, 1, 4)
                 pct == call'.args[5]
             IN  /\ (\E ta \in time_allocations' : AllocKey(ta) = key) <=> pct > 0
                 /\ \A ta \in time_allocations' :
                      AllocKey(ta) = key => ta.allocation_pct = pct
                 /\ { ta \in time_allocations' : AllocKey(ta) # key }
                      = { ta \in time_allocations : AllocKey(ta) # key }
                 /\ UNCHANGED <<employees, projects, budget_items>>
      ]_vars

\* Maria's seeded 20 percent of January 2026 on project 1 was replaced by 100,
\* the last call gave her a second project in the same month, which brings her
\* to more than 100, and the seeded rows of the other keys are still there.
C25_Witness ==
    /\ call.op = "set_allocation"
    /\ raised = "none"
    /\ \E ta, tb \in time_allocations :
         /\ AllocKey(ta) = <<1, 1, 2026, 1>>
         /\ ta.allocation_pct = 100
         /\ AllocKey(tb) = SubSeq(call.args, 1, 4)
         /\ tb.employee_id = 1 /\ tb.year = 2026 /\ tb.month = 1
         /\ tb.project_id # 1
         /\ ta.allocation_pct + tb.allocation_pct > 100
    /\ \E tc \in time_allocations : AllocKey(tc) = <<2, 1, 2026, 2>> /\ tc.allocation_pct = 70

\* Every child row has its parent rows.
ReferentialIntegrity ==
    /\ \A ta \in time_allocations :
         ta.employee_id \in EmployeeIds /\ ta.project_id \in ProjectIds
    /\ \A b \in budget_items : b.project_id \in ProjectIds

\* C27: in every store the writing calls reach, every time_allocations row
\* has its employee and its project and every budget_items row its project;
\* delete_project and delete_employee leave no row of the deleted id, and
\* the personnel cost and budget total of every remaining project are what
\* they were without the deleted project's rows.
C27_ReferentialIntegrity ==
    [][ /\ ReferentialIntegrity'
        /\ call'.op = "delete_project" =>
             /\ \A ta \in time_allocations' : ta.project_id # call'.args[1]
             /\ \A b \in budget_items' : b.project_id # call'.args[1]
             /\ \A q \in projects' :
                  /\ get_project_total_personnel_cost(time_allocations', employees', q.id)
                       = get_project_total_personnel_cost(
                             { ta \in time_allocations : ta.project_id # call'.args[1] },
                             employees, q.id)
                  /\ get_budget_total(budget_items', q.id)
                       = get_budget_total(
                             { b \in budget_items : b.project_id # call'.args[1] }, q.id)
        /\ call'.op = "delete_employee" =>
             /\ \A ta \in time_allocations' : ta.employee_id # call'.args[1]
             /\ budget_items' = budget_items
      ]_vars

\* The seeded project 1 was deleted with its four allocations and two budget
\* items; the employees and the other projects are still there.
C27_Witness ==
    /\ call = [op |-> "delete_project", args |-> <<1>>]
    /\ writes = 2
    /\ nextBudgetId = 3
    /\ budget_items = {}
    /\ time_allocations = {}
    /\ Cardinality(employees) = 2
    /\ Cardinality(projects) = 2

\* The last call named an employee or a project that has no row.
MissingParent ==
    \/ /\ call'.op = "set_allocation"
       /\ call'.args[1] \notin EmployeeIds \/ call'.args[2] \notin ProjectIds
    \/ /\ call'.op = "add_budget_item"
       /\ call'.args[1] \notin ProjectIds

\* C28 as claimed: set_allocation or add_budget_item with an id that has no
\* row raises and leaves the four tables as they were.
C28_AlwaysRaises ==
    [][ MissingParent => raised' = "IntegrityError" /\ UNCHANGED tables ]_vars

\* C28: set_allocation or add_budget_item with an employee_id or project_id
\* that has no row leaves the four tables as they were; add_budget_item, and
\* set_allocation with a positive allocation_pct, raise IntegrityError, while
\* set_allocation with allocation_pct <= 0 deletes nothing and returns; a
\* call that raises changes no table.
C28_FailedWrite ==
    [][ /\ MissingParent =>
             /\ UNCHANGED <<tables, counters>>
             /\ raised' = "IntegrityError"
                  <=> (call'.op = "add_budget_item" \/ call'.args[5] > 0)
        /\ raised' # "none" => UNCHANGED <<tables, counters>>
      ]_vars

\* set_allocation named an employee without a row, for a project that has
\* one, on a store that holds allocations and budget items: it raised.
C28_Witness ==
    /\ call.op = "set_allocation"
    /\ raised = "IntegrityError"
    /\ call.args[1] \notin EmployeeIds
    /\ call.args[2] \in ProjectIds
    /\ time_allocations # {}
    /\ budget_items # {}

\* C30: seed_demo_data called on a store that has an employee changes no
\* table; called twice in a row, the second call changes nothing.
C30_SeedIdempotent ==
    [][ (call'.op = "seed_demo_data" /\ (employees # {} \/ call.op = "seed_demo_data"))
           => UNCHANGED <<tables, counters>> ]_vars

\* seed_demo_data was called on a seeded store from which the first demo
\* project had been deleted: the project was not added again.
C30_Witness ==
    /\ call.op = "seed_demo_data"
    /\ Cardinality(employees) = 2
    /\ nextId = 4
    /\ \A p \in projects : p.name # "Consumer Confidence Survey Q1"
    /\ Cardinality(projects) = 2

\* The contributing projects that cover the month of a bucket.
Covering(key) ==
    { p \in projects : Contributing(p) /\ key \in MonthsFrom(Anchor(p)[1], Duration(p)) }

====
